---- MODULE Spec2Model ----
(***************************************************************************)
(* The reaction-abuse engine of DiscordCommunityHelperBot:                 *)
(*   bot/cogs/reaction_abuser/reaction_abuser_listener.py                  *)
(*   bot/db/repos/emoji_payload_repo.py   (table emoji_payload)            *)
(*   bot/db/repos/emoji_abuser_repo.py    (table emoji_abuser)             *)
(*                                                                         *)
(* Time is counted in half seconds, the resolution at which the default    *)
(* reacted-time window (2.5 s) is a whole number.  Both tables store       *)
(* int(timestamp), whole seconds: ToSeconds.  One step of the model is the *)
(* code a coroutine runs between two awaits together with the store        *)
(* operation (one SQL statement) it then issues.                           *)
(***************************************************************************)
EXTENDS Integers, Sequences, FiniteSets, TLC

\* ------------------------------------------------------------ bounds
\* Half-second ticks the clock may take inside one period, under Spec and
\* SpecRace, and under SpecAggregator.
MaxFine == 1
MaxFineAggregator == 1
\* Pauses of one reacted-time window the clock may skip.
MaxWaits == 1
\* Quiet periods of one whole warning window the clock may skip.
MaxJumps == 1
\* Add notifications stored over a behaviour, under Spec and SpecRace, and
\* under SpecAggregator.
MaxAdds == 2
MaxAddsAggregator == 1
\* Add notifications stored, and exceptions raised, under SpecLifecycle.
MaxAddsLifecycle == 1
MaxFaults == 1
\* Add notifications stored under SpecEmoji.
MaxAddsEmoji == 2
\* Add notifications stored, and restarts of the process, under SpecRestart.
MaxAddsRestart == 1
MaxRestarts == 1
\* Periods of a task that pass while one tick of it is suspended, under
\* SpecOverrun.
MaxOverruns == 1
\* Add notifications stored under SpecKeys, and under SpecLive.
MaxAddsKeys == 2
MaxAddsLive == 1
\* Alerts of one user that the liveness property tells apart.
MaxAlerts == 1
\* Half-second ticks of the clock, and add notifications stored, under
\* SpecChannel.
MaxFineChannel == 2
MaxAddsChannel == 1

\* ------------------------------------------------------------ settings
\* reaction_abuser_reacted_time_window_seconds = 2.5, in half seconds.
ReactedTimeWindow == 5
\* reaction_abuser_warning_time_window_seconds = 3600.0
WarningTimeWindowSeconds == 3600
\* reaction_abuser_warning_max_allowed_removal = 3
WarningMaxAllowedRemoval == 3
\* The bot's own account (self.bot.user.id).
BotUserId == 0

\* ------------------------------------------------------------ inputs
UserIds == {1, 2}
MessageIds == {1}
GuildIds == {1}
ChannelIds == {1}
\* A PartialEmoji: name is its code points (<<>> when None or empty), id is
\* <<>> for None.  The letter e, as a unicode emoji of that one character.
Emojis == {[name |-> <<101>>, id |-> <<>>]}
\* Every shape of PartialEmoji: a plain name, a name outside ASCII (U+2764),
\* a custom emoji (name and id), one that lost its name, and neither.
AllEmojis == [name : {<<>>, <<101>>, <<10084>>}, id : {<<>>, <<7>>}]
Removers == {1, 2}

\* The Reaction Identity carried by a gateway notification.
Identities ==
  [message_id : MessageIds, guild_id : GuildIds, channel_id : ChannelIds,
   user_id : UserIds \cup {BotUserId}, emoji : Emojis]

\* Members' notifications with an emoji of any shape.
EmojiIdentities ==
  [message_id : MessageIds, guild_id : GuildIds, channel_id : ChannelIds,
   user_id : UserIds, emoji : AllEmojis]

\* The notifications of the members' accounts.
UserIdentities == {k \in Identities : k.user_id \in UserIds}

\* ------------------------------------------------------------ time
\* int(payload.timestamp.timestamp()): an instant in half seconds to whole
\* seconds, fraction dropped.
ToSeconds(t) == t \div 2

\* datetime.fromtimestamp(int(row[5])): whole seconds back to an instant.
FromSeconds(s) == s * 2

\* The warning window in half seconds.
WarningWindow == FromSeconds(WarningTimeWindowSeconds)

\* The clock at process start: late enough that every cutoff is positive.
StartTime == 2 * WarningWindow

VARIABLES
  now,            \* the clock, in half seconds
  emoji_payload,  \* table emoji_payload: the Pending Reaction Store
  payloadNextId,  \* its AUTOINCREMENT id
  addedAt,        \* history: addedAt[id] is the instant of the add stored as row id
  emoji_abuser,   \* table emoji_abuser: the Abuse Event Store
  abuserNextId,   \* its AUTOINCREMENT id
  occurredAt,     \* history: occurredAt[id] is the instant of the remove stored as row id
  rem,            \* rem[h]: the on_raw_reaction_remove coroutine in slot h
  agg,            \* the every_minute_task coroutine
  sweep,          \* the every_sixty_minutes_task coroutine
  ready,          \* whether the bot's ready event has fired
  loops,          \* loops[t]: the tasks.loop running task t
  inflight,       \* inflight[t]: the ticks of task t begun and not ended
  faults,         \* history: the number of exceptions raised so far
  ignored,        \* history: the kinds of notification of the bot's own
                  \* account met so far ("add", "remove")
  boots,          \* history: the instants the process was started at
  alerts,         \* history: the alerts log_channel.send delivered, in order
  log             \* the last line written to the logger

\* The Retention Sweeper's coroutine and the life cycle of the cog.
life == <<sweep, ready, loops, inflight, faults>>

\* History of ignored notifications and of process starts.
hist == <<ignored, boots>>

vars == <<now, emoji_payload, payloadNextId, addedAt, emoji_abuser,
          abuserNextId, occurredAt, rem, agg, alerts, log, life, hist>>

\* ------------------------------------------------------------ rows
\* A row of either table from a payload: its id and the stored timestamp.
Row(id, p, ts) ==
  [id |-> id, message_id |-> p.message_id, guild_id |-> p.guild_id,
   channel_id |-> p.channel_id, user_id |-> p.user_id, emoji |-> p.emoji,
   timestamp |-> ts]

\* The Reaction Identity of a row or payload.
Key(r) == <<r.message_id, r.guild_id, r.channel_id, r.user_id, r.emoji>>

\* A printable ASCII character of the names used here.
Chr(c) == CASE c = 101 -> "e" [] c = 120 -> "x"

HexDigit(d) ==
  CASE d = 0 -> "0" [] d = 1 -> "1" [] d = 2 -> "2" [] d = 3 -> "3"
    [] d = 4 -> "4" [] d = 5 -> "5" [] d = 6 -> "6" [] d = 7 -> "7"
    [] d = 8 -> "8" [] d = 9 -> "9" [] d = 10 -> "a" [] d = 11 -> "b"
    [] d = 12 -> "c" [] d = 13 -> "d" [] d = 14 -> "e" [] d = 15 -> "f"

\* n in hexadecimal, width digits.
RECURSIVE Hex(_, _)
Hex(n, width) ==
  IF width = 0 THEN ""
  ELSE Hex(n \div 16, width - 1) \o HexDigit(n % 16)

\* str.encode("unicode_escape"), character by character: printable ASCII
\* stays, a code point of the Basic Multilingual Plane beyond Latin-1
\* becomes \uXXXX.
RECURSIVE UnicodeEscape(_)
UnicodeEscape(name) ==
  IF name = <<>> THEN ""
  ELSE (IF Head(name) < 128 THEN Chr(Head(name))
        ELSE "\\u" \o Hex(Head(name), 4))
         \o UnicodeEscape(Tail(name))

\* _get_emoji_as_readable_utf8_str: <<>> for None.
GetEmojiAsReadableUtf8Str(emoji) ==
  IF emoji.name # <<>> THEN <<UnicodeEscape(emoji.name)>> ELSE <<>>

\* "-".join(str(x) for x in parts if x is not None), parts being the
\* readable name and payload.emoji.id.
EmojiKey(emoji) ==
  LET parts == GetEmojiAsReadableUtf8Str(emoji)
                 \o (IF emoji.id # <<>> THEN <<ToString(emoji.id[1])>> ELSE <<>>)
  IN IF parts = <<>> THEN ""
     ELSE IF Len(parts) = 1 THEN parts[1]
     ELSE parts[1] \o "-" \o parts[2]

\* _extract_payload_info: the EmojiPayload of a notification, stamped now.
ExtractPayloadInfo(k, t) ==
  [message_id |-> k.message_id, guild_id |-> k.guild_id,
   channel_id |-> k.channel_id, user_id |-> k.user_id,
   emoji |-> EmojiKey(k.emoji), timestamp |-> t]

\* The mutant of IsActionableReaction that lets the bot's own reactions in.
IsActionableAlways(k) == TRUE

\* _is_actionable_reaction: not the bot's own reaction.
IsActionableReaction(k) == k.user_id # BotUserId

\* The mutant of Matching whose WHERE clause leaves user_id out.
MatchingAnyUser(rows, p) ==
  {r \in rows : r.message_id = p.message_id /\ r.guild_id = p.guild_id
                 /\ r.channel_id = p.channel_id /\ r.emoji = p.emoji}

\* WHERE message_id = ? AND guild_id = ? AND channel_id = ? AND user_id = ?
\* AND emoji = ?
Matching(rows, p) == {r \in rows : Key(r) = Key(p)}

\* ------------------------------------------------------------ emoji_payload_repo
\* The row a SELECT ... ORDER BY timestamp DESC, id DESC LIMIT 1 returns first.
Latest(rows) ==
  CHOOSE r \in rows : \A q \in rows \ {r} :
    \/ r.timestamp > q.timestamp
    \/ r.timestamp = q.timestamp /\ r.id > q.id

\* The mutant of Get that orders ascending (FIFO).
GetOldest(rows, p) ==
  LET m == Matching(rows, p) IN
  IF m = {} THEN <<>>
  ELSE <<CHOOSE r \in m : \A q \in m \ {r} :
           \/ r.timestamp < q.timestamp
           \/ r.timestamp = q.timestamp /\ r.id < q.id>>

\* EmojiPayloadRepo.get: <<>> for None, else the one matching row, the most
\* recently added.  The id is not selected by the code; the model keeps it to
\* tell rows apart.
Get(rows, p) ==
  LET m == Matching(rows, p) IN
  IF m = {} THEN <<>> ELSE <<Latest(m)>>

\* The mutant of Delete whose WHERE clause names the message only.
DeleteOfMessage(rows, p) == {r \in rows : r.message_id # p.message_id}

\* EmojiPayloadRepo.delete: DELETE ... WHERE <the Reaction Identity>.
Delete(rows, p) == rows \ Matching(rows, p)

\* ------------------------------------------------------------ emoji_abuser_repo
\* cutoff_ts = int((now - timedelta(seconds=int(within_seconds))).timestamp())
CutoffTs(t, within_seconds) == ToSeconds(t - FromSeconds(within_seconds))

\* WHERE timestamp >= ?
InWindow(r, cutoff_ts) == r.timestamp >= cutoff_ts

\* COUNT(*) of one user's rows WHERE timestamp >= ?
CountWithin(rows, u, cutoff_ts) ==
  Cardinality({r \in rows : r.user_id = u /\ InWindow(r, cutoff_ts)})

\* The mutant of Offenders that flags at the limit.
OffendersAtLimit(rows, cutoff_ts, max_count) ==
  {u \in {r.user_id : r \in rows} : CountWithin(rows, u, cutoff_ts) >= max_count}

\* The mutant of Offenders that tolerates one event more.
OffendersOverByTwo(rows, cutoff_ts, max_count) ==
  {u \in {r.user_id : r \in rows} :
     CountWithin(rows, u, cutoff_ts) > max_count + 1}

\* get_abusers_within, first query: GROUP BY user_id HAVING COUNT(*) > ?
Offenders(rows, cutoff_ts, max_count) ==
  {u \in {r.user_id : r \in rows} : CountWithin(rows, u, cutoff_ts) > max_count}

\* The mutant of Before that orders a user's rows oldest first.
BeforeOldestFirst(a, b) ==
  \/ a.user_id < b.user_id
  \/ a.user_id = b.user_id /\ a.timestamp < b.timestamp
  \/ a.user_id = b.user_id /\ a.timestamp = b.timestamp /\ a.id < b.id

\* ORDER BY user_id ASC, timestamp DESC, id DESC
Before(a, b) ==
  \/ a.user_id < b.user_id
  \/ a.user_id = b.user_id /\ a.timestamp > b.timestamp
  \/ a.user_id = b.user_id /\ a.timestamp = b.timestamp /\ a.id > b.id

\* The rows in the order of Before: the i-th is the one i - 1 rows precede.
OrderRows(rows) ==
  [i \in 1..Cardinality(rows) |->
     CHOOSE r \in rows : Cardinality({q \in rows : Before(q, r)}) = i - 1]

\* get_abusers_within, second query: the offenders' rows in the window.
AbusersWithin(rows, cutoff_ts, offender_ids) ==
  OrderRows({r \in rows : InWindow(r, cutoff_ts) /\ r.user_id \in offender_ids})

\* The mutant of DeleteUserRecords that deletes nothing.
DeleteNoRecords(rows, u) == rows

\* The mutant of DeleteUserRecords that deletes only the evidence: of every
\* Reaction Identity of the user, the latest row.
DeleteEvidenceOnly(rows, u) ==
  {r \in rows :
     r.user_id = u =>
       \E q \in rows :
         /\ q.user_id = u /\ q.message_id = r.message_id
         /\ q.emoji = r.emoji /\ q.id > r.id}

\* EmojiAbuserRepo.delete_user_records: DELETE ... WHERE user_id = ?
DeleteUserRecords(rows, u) == {r \in rows : r.user_id # u}

\* EmojiAbuserRepo.prune: DELETE ... WHERE timestamp < ?
Prune(rows, cutoff_ts) == {r \in rows : ~(r.timestamp < cutoff_ts)}

\* ------------------------------------------------------------ every_minute_task helpers
\* key = (message_id, user_id, channel_id, guild_id, emoji)
DedupKey(r) == <<r.message_id, r.user_id, r.channel_id, r.guild_id, r.emoji>>

\* match_abusers: the first record of every key, in the order met.
RECURSIVE Dedupe(_, _)
Dedupe(s, found) ==
  IF s = <<>> THEN <<>>
  ELSE IF DedupKey(Head(s)) \in found THEN Dedupe(Tail(s), found)
  ELSE <<Head(s)>> \o Dedupe(Tail(s), found \cup {DedupKey(Head(s))})

\* Counter(p.user_id for p in abusers)[u]
CountOf(abusers, u) ==
  Cardinality({i \in DOMAIN abusers : abusers[i].user_id = u})

\* The keys of a Counter, in the order of first occurrence.
RECURSIVE UsersInOrder(_, _)
UsersInOrder(s, seen) ==
  IF s = <<>> THEN <<>>
  ELSE IF Head(s).user_id \in seen THEN UsersInOrder(Tail(s), seen)
  ELSE <<Head(s).user_id>> \o UsersInOrder(Tail(s), seen \cup {Head(s).user_id})

\* abuse_warns_by_user_ids: the users whose count > the limit.
AbuseWarns(abusers) ==
  SelectSeq(UsersInOrder(abusers, {}),
            LAMBDA u : CountOf(abusers, u) > WarningMaxAllowedRemoval)

\* The mutant of MatchedPayloads that takes the records before deduplication.
MatchedPayloadsAll(abusers, u) ==
  SelectSeq(abusers, LAMBDA mp : mp.user_id = u)

\* matched_payloads of one user: [mp for mp in match_abusers if mp.user_id == u]
MatchedPayloads(abusers, u) ==
  SelectSeq(Dedupe(abusers, {}), LAMBDA mp : mp.user_id = u)

\* The alert sent for user u: the embed's user, count and evidence.  ids is
\* history: the rows the count counts.
Alert(abusers, u) ==
  [user_id |-> u, count |-> CountOf(abusers, u),
   evidence |-> MatchedPayloads(abusers, u),
   ids |-> {abusers[i].id : i \in {j \in DOMAIN abusers : abusers[j].user_id = u}}]

\* The mutant of PurgeAfterSend that purges whether or not the send succeeded.
PurgeAlways(ok, rows, u) == DeleteUserRecords(rows, u)

\* await log_channel.send(...) then delete_user_records: the purge is reached
\* only when send returned; a raised exception leaves the store as it is.
PurgeAfterSend(ok, rows, u) ==
  IF ok THEN DeleteUserRecords(rows, u) ELSE rows

\* ------------------------------------------------------------ the initial state
\* The tables are durable (CREATE TABLE IF NOT EXISTS): the process starts with
\* the Abuse Events an earlier run left.  Per user that is nothing ("none"),
\* exactly the tolerated number of events of one Reaction Identity stamped at
\* the starting second ("limit"), or five events on two messages ("over+old"):
\* one older than the warning window, one exactly a window old, two a second
\* old and one stamped at the starting second.
\* What SpecAggregator starts from: every user has persisted events.
PersistedAggregator == {"limit", "over+old"}

StartSecond == ToSeconds(StartTime)

PersistedCount(kind) ==
  IF kind = "none" THEN 0
  ELSE IF kind = "limit" THEN WarningMaxAllowedRemoval
  ELSE WarningMaxAllowedRemoval + 2

\* The message of the i-th persisted row of a user.
PersistedMessage(kind, i) ==
  IF kind = "limit" THEN 1 ELSE 2 - (i % 2)

\* The stored second of the i-th persisted row of a user, ascending in i as
\* AUTOINCREMENT ids are in insertion order.
PersistedTimestamp(kind, i) ==
  IF kind = "limit" THEN StartSecond
  ELSE IF i = 1 THEN StartSecond - WarningTimeWindowSeconds - 1
  ELSE IF i = 2 THEN StartSecond - WarningTimeWindowSeconds
  ELSE IF i <= WarningMaxAllowedRemoval + 1 THEN StartSecond - 1
  ELSE StartSecond

\* The persisted rows of user u, given ids from base + 1 on.
PersistedRows(u, kind, base) ==
  {[id |-> base + i, message_id |-> PersistedMessage(kind, i), guild_id |-> 1,
    channel_id |-> 1, user_id |-> u, emoji |-> "e",
    timestamp |-> PersistedTimestamp(kind, i)] : i \in 1..PersistedCount(kind)}

IdleRemove == [pc |-> "idle", payload |-> <<>>, result |-> <<>>]

IdleSweep == [pc |-> "idle", pruned_count |-> 0]

\* The scheduled tasks of the cog.
Tasks == {"minute", "hour"}

IdleAgg ==
  [pc |-> "idle", cutoff |-> 0, offenders |-> {}, abusers |-> <<>>,
   todo |-> <<>>, base |-> 0, log_channel |-> FALSE]

\* The state after construction, the persisted Abuse Events of every user
\* being of one of kinds: __init__ starts both loops, which park in their
\* before_loop until the bot is ready (is_ready: the state once it is).
Init(kinds, is_ready) ==
  /\ now = StartTime
  /\ emoji_payload = {}
  /\ payloadNextId = 1
  /\ addedAt = <<>>
  /\ \E f \in [UserIds -> kinds] :
       /\ emoji_abuser =
            PersistedRows(1, f[1], 0)
              \cup PersistedRows(2, f[2], PersistedCount(f[1]))
       /\ abuserNextId = PersistedCount(f[1]) + PersistedCount(f[2]) + 1
       /\ occurredAt =
            [i \in 1..(PersistedCount(f[1]) + PersistedCount(f[2])) |->
               FromSeconds((CHOOSE r \in emoji_abuser : r.id = i).timestamp)]
  /\ rem = [h \in Removers |-> IdleRemove]
  /\ agg = IdleAgg
  /\ sweep = IdleSweep
  /\ ready = is_ready
  /\ loops = [t \in Tasks |-> IF is_ready THEN "looping" ELSE "parked"]
  /\ inflight = [t \in Tasks |-> 0]
  /\ faults = 0
  /\ ignored = {}
  /\ boots = <<StartTime>>
  /\ alerts = <<>>
  /\ log = "started"

\* ------------------------------------------------------------ the clock
AllIdle ==
  /\ agg.pc = "idle"
  /\ sweep.pc = "idle"
  /\ \A h \in Removers : rem[h].pc = "idle"

\* Half a second passes, at most max_fine times in a period.
Tick(period, max_fine) ==
  /\ (now - StartTime) % period < max_fine
  /\ now' = now + 1
  /\ UNCHANGED <<emoji_payload, payloadNextId, addedAt, emoji_abuser,
                 abuserNextId, occurredAt, rem, agg, alerts, log, life,
                 hist>>

\* A reacted-time window (2.5 s) passes.
Wait ==
  /\ (now - StartTime) \div ReactedTimeWindow < MaxWaits
  /\ now' = now + ReactedTimeWindow
  /\ UNCHANGED <<emoji_payload, payloadNextId, addedAt, emoji_abuser,
                 abuserNextId, occurredAt, rem, agg, alerts, log, life,
                 hist>>

\* A quiet hour passes: one warning window with no coroutine in flight.
Jump ==
  /\ AllIdle
  /\ (now - StartTime) \div WarningWindow < MaxJumps
  /\ now' = now + WarningWindow
  /\ UNCHANGED <<emoji_payload, payloadNextId, addedAt, emoji_abuser,
                 abuserNextId, occurredAt, rem, agg, alerts, log, life,
                 hist>>

\* ------------------------------------------------------------ tasks.loop
\* The mutant of CanStartTick that starts a tick whenever the loop runs.
CanStartTickAlways(t) == loops[t] = "looping"

\* @tasks.loop: the loop awaits the coroutine of a tick and only then sleeps
\* towards the next one, so a tick begins only when none is in progress.
CanStartTick(t) == loops[t] = "looping" /\ inflight[t] = 0

\* A tick of task t is suspended at an await.
TickBegins(t) == inflight' = [inflight EXCEPT ![t] = @ + 1]

\* The coroutine of a tick of task t returns or raises.
TickEnds(t) == inflight' = [inflight EXCEPT ![t] = @ - 1]

\* ------------------------------------------------------------ Pair Matcher
\* on_raw_reaction_add: the payload is stamped and inserted.
OnRawReactionAdd(k, max_adds) ==
  /\ payloadNextId <= max_adds
  /\ IF IsActionableReaction(k)
       THEN /\ emoji_payload' =
                 emoji_payload \cup
                   {Row(payloadNextId, ExtractPayloadInfo(k, now), ToSeconds(now))}
            /\ payloadNextId' = payloadNextId + 1
            /\ addedAt' = Append(addedAt, now)
            /\ UNCHANGED ignored
       ELSE /\ ignored' = ignored \cup {"add"}
            /\ UNCHANGED <<emoji_payload, payloadNextId, addedAt>>
  /\ UNCHANGED <<now, emoji_abuser, abuserNextId, occurredAt, rem, agg, alerts,
                 log, life, boots>>

\* on_raw_reaction_remove up to get_and_delete's SELECT: the payload is
\* stamped and the store looked up; None ends the handler.
RemoveGet(h, k) ==
  /\ rem[h].pc = "idle"
  /\ IF ~IsActionableReaction(k)
       THEN /\ ignored' = ignored \cup {"remove"}
            /\ UNCHANGED <<rem, log>>
       ELSE LET p == ExtractPayloadInfo(k, now)
                result == Get(emoji_payload, p)
            IN /\ UNCHANGED ignored
               /\ IF result = <<>>
                    THEN /\ log' = "No matching reaction add payload found"
                         /\ UNCHANGED rem
                    ELSE /\ rem' = [rem EXCEPT ![h] =
                                      [pc |-> "delete", payload |-> <<p>>,
                                       result |-> result]]
                         /\ UNCHANGED log
  /\ UNCHANGED <<now, emoji_payload, payloadNextId, addedAt, emoji_abuser,
                 abuserNextId, occurredAt, agg, alerts, life, boots>>

\* get_and_delete after its SELECT returned a row: the DELETE.
RemoveDelete(h) ==
  /\ rem[h].pc = "delete"
  /\ emoji_payload' = Delete(emoji_payload, rem[h].payload[1])
  /\ rem' = [rem EXCEPT ![h].pc = "classify"]
  /\ UNCHANGED <<now, payloadNextId, addedAt, emoji_abuser, abuserNextId,
                 occurredAt, agg, alerts, log, life,
                 hist>>

\* time_diff = (emoji_del_payload.timestamp - emoji_add_payload.timestamp)
TimeDiff(del_payload, add_row) ==
  del_payload.timestamp - FromSeconds(add_row.timestamp)

\* time_diff <= settings.reaction_abuser_reacted_time_window_seconds
IsAbuse(time_diff) == time_diff <= ReactedTimeWindow

\* on_raw_reaction_remove after get_and_delete: the dwell is classified and an
\* Abuse Event inserted (emoji_abuser_repo.add) when it is short.
RemoveClassify(h) ==
  /\ rem[h].pc = "classify"
  /\ LET p == rem[h].payload[1]
         time_diff == TimeDiff(p, rem[h].result[1])
     IN IF IsAbuse(time_diff)
          THEN /\ emoji_abuser' =
                    emoji_abuser \cup {Row(abuserNextId, p, ToSeconds(p.timestamp))}
               /\ abuserNextId' = abuserNextId + 1
               /\ occurredAt' = Append(occurredAt, p.timestamp)
               /\ log' = "Detected reaction abuser"
          ELSE /\ UNCHANGED <<emoji_abuser, abuserNextId, occurredAt>>
               /\ log' = "Reaction removal outside of abuser time window"
  /\ rem' = [rem EXCEPT ![h] = IdleRemove]
  /\ UNCHANGED <<now, emoji_payload, payloadNextId, addedAt, agg, alerts, life,
                 hist>>

\* ------------------------------------------------------------ Window Aggregator
\* every_minute_task up to get_abusers_within's first query.
AggQuery1 ==
  /\ CanStartTick("minute")
  /\ LET cutoff_ts == CutoffTs(now, WarningTimeWindowSeconds)
         offender_ids == Offenders(emoji_abuser, cutoff_ts, WarningMaxAllowedRemoval)
     IN IF offender_ids = {}
          THEN /\ log' = "No reaction abusers detected"
               /\ agg' = IdleAgg
               /\ UNCHANGED inflight
          ELSE /\ agg' = [IdleAgg EXCEPT !.pc = "query2", !.cutoff = cutoff_ts,
                                         !.offenders = offender_ids]
               /\ TickBegins("minute")
               /\ UNCHANGED log
  /\ UNCHANGED <<now, emoji_payload, payloadNextId, addedAt, emoji_abuser,
                 abuserNextId, occurredAt, rem, alerts, sweep, ready, loops,
                 faults,
                 hist>>

\* The mutant of LogChannelMissing that takes whatever _get_log_channel
\* returned for a channel.
LogChannelAssumed(log_channel) == FALSE

\* if log_channel is None: the task logs an error and returns.
LogChannelMissing(log_channel) == ~log_channel

\* get_abusers_within's second query, then the task up to the first
\* log_channel.send: the log channel resolves (channel) or does not.
AggQuery2(channel) ==
  /\ agg.pc = "query2"
  /\ \E abusers \in {AbusersWithin(emoji_abuser, agg.cutoff, agg.offenders)} :
        IF abusers = <<>>
          THEN /\ agg' = IdleAgg
               /\ log' = "No reaction abusers detected"
          ELSE IF LogChannelMissing(channel)
          THEN /\ agg' = IdleAgg
               /\ log' = "Unable to resolve reaction abuser log channel"
          ELSE IF AbuseWarns(abusers) = <<>>
          THEN /\ agg' = IdleAgg
               /\ log' = "No reaction abusers detected"
          ELSE /\ agg' = [agg EXCEPT !.pc = "send", !.abusers = abusers,
                                     !.todo = AbuseWarns(abusers),
                                     !.base = Len(alerts),
                                     !.log_channel = channel]
               /\ UNCHANGED log
  /\ IF agg'.pc = "idle" THEN TickEnds("minute") ELSE UNCHANGED inflight
  /\ UNCHANGED <<now, emoji_payload, payloadNextId, addedAt, emoji_abuser,
                 abuserNextId, occurredAt, rem, alerts, sweep, ready, loops,
                 faults,
                 hist>>

\* log_channel.send for the next flagged user returns (ok) or raises an
\* exception of those tasks.loop retries after (a connection error, a
\* timeout); after a return the user's records are deleted and the loop goes
\* on, an exception ends the tick.
AggSend(ok) ==
  /\ agg.pc = "send"
  /\ LET u == Head(agg.todo) IN
       /\ emoji_abuser' = PurgeAfterSend(ok, emoji_abuser, u)
       /\ IF ok
            THEN /\ alerts' = Append(alerts, Alert(agg.abusers, u))
                 /\ log' = "Deleted reaction abuser records"
                 /\ agg' = IF Tail(agg.todo) = <<>> THEN IdleAgg
                           ELSE [agg EXCEPT !.todo = Tail(agg.todo)]
            ELSE /\ UNCHANGED alerts
                 /\ log' = "Unhandled exception in log_channel.send"
                 /\ agg' = IdleAgg
  /\ IF agg'.pc = "idle" THEN TickEnds("minute") ELSE UNCHANGED inflight
  /\ UNCHANGED <<now, emoji_payload, payloadNextId, addedAt, abuserNextId,
                 occurredAt, rem, sweep, ready, loops, faults,
                 hist>>

\* ------------------------------------------------------------ Retention Sweeper
\* The mutant of OlderThanSeconds that divides where the code multiplies.
HalfWindow(window_seconds) == window_seconds \div 2

\* older_than_seconds=int(settings.reaction_abuser_warning_time_window_seconds * 2)
OlderThanSeconds(window_seconds) == window_seconds * 2

\* The mutant of PendingAfterSweep in which the task prunes the pending
\* reactions as well (EmojiPayloadRepo.prune).
PendingPruned(rows, cutoff_ts) == Prune(rows, cutoff_ts)

\* The Pending Reaction Store after a sweep: the task calls
\* emoji_abuser_repo.prune only, EmojiPayloadRepo.prune has no caller.
PendingAfterSweep(rows, cutoff_ts) == rows

\* every_sixty_minutes_task up to prune's DELETE; pruned_count is the
\* statement's rowcount.
EverySixtyMinutesTask ==
  /\ CanStartTick("hour")
  /\ TickBegins("hour")
  /\ LET cutoff_ts == CutoffTs(now, OlderThanSeconds(WarningTimeWindowSeconds))
     IN /\ emoji_abuser' = Prune(emoji_abuser, cutoff_ts)
        /\ emoji_payload' = PendingAfterSweep(emoji_payload, cutoff_ts)
        /\ sweep' = [pc |-> "report",
                     pruned_count |->
                       Cardinality(emoji_abuser \ Prune(emoji_abuser, cutoff_ts))]
  /\ UNCHANGED <<now, payloadNextId, addedAt, abuserNextId,
                 occurredAt, rem, agg, alerts, log, ready, loops, faults,
                 hist>>

\* every_sixty_minutes_task after prune returned: logger.info(f"Pruned
\* {pruned_count} old reaction abuser records ...").
SweepReport ==
  /\ sweep.pc = "report"
  /\ log' = "Pruned old reaction abuser records"
  /\ sweep' = IdleSweep
  /\ TickEnds("hour")
  /\ UNCHANGED <<now, emoji_payload, payloadNextId, addedAt, emoji_abuser,
                 abuserNextId, occurredAt, rem, agg, alerts, ready, loops,
                 faults,
                 hist>>

\* ------------------------------------------------------------ specifications
\* The Pair Matcher on an empty Abuse Event Store: adds, and removes handled
\* in the slots given.
InitMatcher == Init({"none"}, TRUE)

NextMatcher(slots) ==
  \/ Tick(ReactedTimeWindow, MaxFine)
  \/ Wait
  \/ \E k \in Identities : OnRawReactionAdd(k, MaxAdds)
  \/ \E h \in slots, k \in Identities : RemoveGet(h, k)
  \/ \E h \in slots : RemoveDelete(h)
  \/ \E h \in slots : RemoveClassify(h)

\* Removes handled one at a time.
Spec == InitMatcher /\ [][NextMatcher({1})]_vars

\* Two remove handlers in flight at once, interleaving at every await.
SpecRace == InitMatcher /\ [][NextMatcher(Removers)]_vars

\* The Reaction Identities whose notifications arrive under SpecAggregator:
\* those of one user; which of the users is over the limit is decided by the
\* persisted events, and the initial states cover every assignment.
AggregatorIdentities == {k \in UserIdentities : k.user_id = 1}

\* The Window Aggregator and the Retention Sweeper over a persisted Abuse
\* Event Store, with ingestion through one remove slot going on.
NextAggregator ==
  \/ Tick(WarningWindow, MaxFineAggregator)
  \/ Jump
  \/ \E k \in AggregatorIdentities : OnRawReactionAdd(k, MaxAddsAggregator)
  \/ \E k \in AggregatorIdentities : RemoveGet(1, k)
  \/ RemoveDelete(1)
  \/ RemoveClassify(1)
  \/ AggQuery1
  \/ \E channel \in BOOLEAN : AggQuery2(channel)
  \/ \E ok \in BOOLEAN : AggSend(ok)
  \/ EverySixtyMinutesTask
  \/ SweepReport

SpecAggregator == Init(PersistedAggregator, TRUE) /\ [][NextAggregator]_vars

\* ------------------------------------------------------------ life cycle
\* The bot's ready event fires.
OnReady ==
  /\ ~ready
  /\ ready' = TRUE
  /\ UNCHANGED <<now, emoji_payload, payloadNextId, addedAt, emoji_abuser,
                 abuserNextId, occurredAt, rem, agg, alerts, log, sweep, loops,
                 inflight, faults,
                 hist>>

\* The mutant of WaitUntilReady that returns at once.
WaitUntilReadySkipped == TRUE

\* await self.bot.wait_until_ready() returns once the ready event has fired.
WaitUntilReady == ready

\* before_every_minute_task / before_every_sixty_minutes_task return: the loop
\* of task t goes on to its ticks.
BeforeLoop(t) ==
  /\ loops[t] = "parked"
  /\ WaitUntilReady
  /\ loops' = [loops EXCEPT ![t] = "looping"]
  /\ UNCHANGED <<now, emoji_payload, payloadNextId, addedAt, emoji_abuser,
                 abuserNextId, occurredAt, rem, agg, alerts, log, sweep, ready,
                 inflight, faults,
                 hist>>

\* What an aggregator tick abandoned at its await may have got done, as
\* <<delivered, purged>>: a tick suspended in the loop over the flagged users
\* is at log_channel.send (the alert went out or not) or at
\* delete_user_records (the alert went out; the DELETE ran only if may_purge).
Abandoned(pc, may_purge) ==
  IF pc = "send"
    THEN {<<FALSE, FALSE>>, <<TRUE, FALSE>>}
           \cup (IF may_purge THEN {<<TRUE, TRUE>>} ELSE {})
    ELSE {<<FALSE, FALSE>>}

\* The aggregator tick in progress, if any, ends at its await with outcome o.
AggAbandon(o) ==
  /\ agg' = IdleAgg
  /\ alerts' = IF o[1] THEN Append(alerts, Alert(agg.abusers, Head(agg.todo)))
                       ELSE alerts
  /\ emoji_abuser' = IF o[2] THEN DeleteUserRecords(emoji_abuser, Head(agg.todo))
                             ELSE emoji_abuser

\* cog_unload: Loop.cancel() on both tasks cancels the task that runs the
\* loop, so a tick in progress gets CancelledError at the await it is
\* suspended at; a statement already handed to the store may still run.
CogUnload ==
  /\ \E t \in Tasks : loops[t] \in {"parked", "looping"}
  /\ loops' = [t \in Tasks |->
                IF loops[t] \in {"parked", "looping"} THEN "stopped" ELSE loops[t]]
  /\ \E o \in Abandoned(agg.pc, TRUE) : AggAbandon(o)
  /\ sweep' = IdleSweep
  /\ inflight' = [t \in Tasks |-> 0]
  /\ UNCHANGED <<now, emoji_payload, payloadNextId, addedAt, abuserNextId,
                 occurredAt, rem, log, ready, faults,
                 hist>>

\* A tick of task t raises an exception that tasks.loop does not retry after
\* (sqlite3.Error from a store statement, discord.HTTPException from send):
\* the task has no try/except and no error handler, the exception leaves the
\* loop and the loop's task is done.  The sweeper's only await is prune.
TaskFails(t) ==
  /\ faults < MaxFaults
  /\ loops[t] = "looping"
  /\ loops' = [loops EXCEPT ![t] = "failed"]
  /\ inflight' = [inflight EXCEPT ![t] = 0]
  /\ faults' = faults + 1
  /\ log' = "Unhandled exception in internal background task"
  /\ IF t = "minute"
       THEN /\ \E o \in Abandoned(agg.pc, FALSE) : AggAbandon(o)
            /\ UNCHANGED sweep
       ELSE /\ sweep.pc = "idle"
            /\ UNCHANGED <<sweep, agg, alerts, emoji_abuser>>
  /\ UNCHANGED <<now, emoji_payload, payloadNextId, addedAt, abuserNextId,
                 occurredAt, rem, ready,
                 hist>>

\* on_raw_reaction_add raises at emoji_payload_repo.add: nothing is stored,
\* and the client, which runs every listener call in a task of its own,
\* logs the exception.
OnRawReactionAddFails ==
  /\ faults < MaxFaults
  /\ faults' = faults + 1
  /\ log' = "Ignoring exception in on_raw_reaction_add"
  /\ UNCHANGED <<now, emoji_payload, payloadNextId, addedAt, emoji_abuser,
                 abuserNextId, occurredAt, rem, agg, alerts, sweep, ready, loops,
                 inflight,
                 hist>>

\* The mutant of AfterHandlerError in which an exception ends the handling
\* of notifications.
CrashedRemove == [IdleRemove EXCEPT !.pc = "crashed"]

\* The remove slot after its handler raised: the task of that call is over
\* and the next notification gets a new one.
AfterHandlerError == IdleRemove

\* on_raw_reaction_remove raises at the await it has reached: the SELECT or
\* the DELETE of get_and_delete, or emoji_abuser_repo.add.
OnRawReactionRemoveFails(h) ==
  /\ faults < MaxFaults
  /\ rem[h].pc = "classify" =>
       IsAbuse(TimeDiff(rem[h].payload[1], rem[h].result[1]))
  /\ rem' = [rem EXCEPT ![h] = AfterHandlerError]
  /\ faults' = faults + 1
  /\ log' = "Ignoring exception in on_raw_reaction_remove"
  /\ UNCHANGED <<now, emoji_payload, payloadNextId, addedAt, emoji_abuser,
                 abuserNextId, occurredAt, agg, alerts, sweep, ready, loops,
                 inflight,
                 hist>>

\* @tasks.loop(minutes=1) / @tasks.loop(minutes=60)
Period(t) == IF t = "minute" THEN FromSeconds(60) ELSE FromSeconds(3600)

\* A whole period of task t passes while a tick of it is suspended at an
\* await.
Overrun(t) ==
  /\ inflight[t] > 0
  /\ now - StartTime < MaxOverruns * Period(t)
  /\ now' = now + Period(t)
  /\ UNCHANGED <<emoji_payload, payloadNextId, addedAt, emoji_abuser,
                 abuserNextId, occurredAt, rem, agg, alerts, log, life,
                 hist>>

\* What SpecLifecycle starts from: both users are over the limit.
PersistedLifecycle == {"over+old"}

\* The cog from its construction to its unloading, with failing store and
\* delivery calls: ingestion through one remove slot, both tasks.
NextLifecycle ==
  \/ OnReady
  \/ \E t \in Tasks : BeforeLoop(t)
  \/ CogUnload
  \/ \E t \in Tasks : TaskFails(t)
  \/ OnRawReactionAddFails
  \/ OnRawReactionRemoveFails(1)
  \/ \E k \in UserIdentities : OnRawReactionAdd(k, MaxAddsLifecycle)
  \/ \E k \in UserIdentities : RemoveGet(1, k)
  \/ RemoveDelete(1)
  \/ RemoveClassify(1)
  \/ AggQuery1
  \/ \E channel \in BOOLEAN : AggQuery2(channel)
  \/ \E ok \in BOOLEAN : AggSend(ok)
  \/ EverySixtyMinutesTask
  \/ SweepReport

SpecLifecycle == Init(PersistedLifecycle, FALSE) /\ [][NextLifecycle]_vars

\* ------------------------------------------------------------ restart
\* The mutant of InitSchema that creates the table anew.
InitSchemaFresh(rows) == {}

\* init_schema: CREATE TABLE IF NOT EXISTS leaves the rows of the database
\* file as the last process left them.
InitSchema(rows) == rows

\* How long the process may be down: half a second, or longer than the
\* Abuse Events are retained.
Downtimes == {1, 2 * WarningWindow + FromSeconds(2)}

\* The process ends (whatever its coroutines are suspended at, as in
\* CogUnload) and is started again after downtime: setup_hook runs
\* init_schema on both tables and loads the cog, whose __init__ starts both
\* loops.
Restart(downtime) ==
  /\ Len(boots) <= MaxRestarts
  /\ now' = now + downtime
  /\ boots' = Append(boots, now')
  /\ emoji_payload' = InitSchema(emoji_payload)
  /\ \E o \in Abandoned(agg.pc, TRUE) :
       /\ alerts' = IF o[1] THEN Append(alerts, Alert(agg.abusers, Head(agg.todo)))
                            ELSE alerts
       /\ emoji_abuser' =
            InitSchema(IF o[2] THEN DeleteUserRecords(emoji_abuser, Head(agg.todo))
                               ELSE emoji_abuser)
  /\ rem' = [h \in Removers |-> IdleRemove]
  /\ agg' = IdleAgg
  /\ sweep' = IdleSweep
  /\ inflight' = [t \in Tasks |-> 0]
  /\ ready' = FALSE
  /\ loops' = [t \in Tasks |-> "parked"]
  /\ log' = "Bot is starting up"
  /\ UNCHANGED <<payloadNextId, addedAt, abuserNextId, occurredAt, faults,
                 ignored>>

\* One member's notifications with a unicode emoji outside ASCII or a custom
\* one.
RestartIdentities ==
  {k \in EmojiIdentities :
     /\ k.user_id = 1
     /\ k.emoji \in {[name |-> <<10084>>, id |-> <<>>],
                     [name |-> <<101>>, id |-> <<7>>]}}

\* The cog over restarts of the process: ingestion through one remove slot
\* and both tasks with the log channel there and deliveries succeeding, the
\* stores outliving the process.
NextRestart ==
  \/ \E downtime \in Downtimes : Restart(downtime)
  \/ OnReady
  \/ \E t \in Tasks : BeforeLoop(t)
  \/ \E k \in RestartIdentities : OnRawReactionAdd(k, MaxAddsRestart)
  \/ \E k \in RestartIdentities : RemoveGet(1, k)
  \/ RemoveDelete(1)
  \/ RemoveClassify(1)
  \/ AggQuery1
  \/ AggQuery2(TRUE)
  \/ AggSend(TRUE)
  \/ EverySixtyMinutesTask
  \/ SweepReport

SpecRestart == Init(PersistedLifecycle, FALSE) /\ [][NextRestart]_vars

\* Both tasks of a ready bot with ticks that stay suspended for a period or
\* more.
NextOverrun ==
  \/ \E t \in Tasks : Overrun(t)
  \/ AggQuery1
  \/ \E channel \in BOOLEAN : AggQuery2(channel)
  \/ \E ok \in BOOLEAN : AggSend(ok)
  \/ EverySixtyMinutesTask
  \/ SweepReport

SpecOverrun == Init(PersistedLifecycle, TRUE) /\ [][NextOverrun]_vars

\* The Pair Matcher fed emojis of every shape.
NextEmoji ==
  \/ \E k \in EmojiIdentities : OnRawReactionAdd(k, MaxAddsEmoji)
  \/ \E k \in EmojiIdentities : RemoveGet(1, k)
  \/ RemoveDelete(1)
  \/ RemoveClassify(1)

SpecEmoji == InitMatcher /\ [][NextEmoji]_vars

\* ------------------------------------------------------------ ingestion and runs
\* Ingestion of up to max_adds reactions interleaved with aggregator runs
\* that find their channel and whose sends return, at one instant.
NextIngest(max_adds) ==
  \/ \E k \in UserIdentities : OnRawReactionAdd(k, max_adds)
  \/ \E k \in UserIdentities : RemoveGet(1, k)
  \/ RemoveDelete(1)
  \/ RemoveClassify(1)
  \/ AggQuery1
  \/ AggQuery2(TRUE)
  \/ AggSend(TRUE)

NextKeys == NextIngest(MaxAddsKeys)

SpecKeys == Init(PersistedAggregator, TRUE) /\ [][NextKeys]_vars

NextLive == NextIngest(MaxAddsLive)

\* tasks.loop(minutes=1) starts a tick every minute for as long as the loop
\* runs, and the event loop resumes a tick whose await has completed.
Fairness ==
  /\ WF_vars(AggQuery1)
  /\ WF_vars(AggQuery2(TRUE))
  /\ WF_vars(AggSend(TRUE))

SpecLive == Init(PersistedAggregator, TRUE) /\ [][NextLive]_vars /\ Fairness

\* Aggregator runs that find their channel or do not, with the clock going
\* on while a run is suspended at an await and ingestion alongside.
NextChannel ==
  \/ Tick(WarningWindow, MaxFineChannel)
  \/ \E k \in UserIdentities : OnRawReactionAdd(k, MaxAddsChannel)
  \/ \E k \in UserIdentities : RemoveGet(1, k)
  \/ RemoveDelete(1)
  \/ RemoveClassify(1)
  \/ AggQuery1
  \/ \E channel \in BOOLEAN : AggQuery2(channel)
  \/ AggSend(TRUE)

SpecChannel == Init(PersistedAggregator, TRUE) /\ [][NextChannel]_vars

\* ------------------------------------------------------------ claims: Pair Matcher
Started(h) == rem[h].pc # "idle"

\* C1: while one Pending Reaction matches, two concurrent removes never both
\* match it: no two remove handlers hold the same Pending Reaction as their
\* match (so it is consumed once and yields at most one Abuse Event).
C1_MatchedByOneRemove ==
  \A h1, h2 \in Removers :
    (h1 # h2 /\ Started(h1) /\ Started(h2))
      => rem[h1].result[1].id # rem[h2].result[1].id

\* The Pending Reactions of a payload's Reaction Identity.
SameIdentity(rows, p) == {r \in rows : Key(r) = Key(p)}

\* C2: a matched remove deletes exactly one Pending Reaction: of the k >= 1
\* that share its Reaction Identity when it deletes, k - 1 remain.
C2_ConsumesExactlyOne ==
  [][\A h \in Removers :
       (rem[h].pc = "delete" /\ rem'[h].pc = "classify") =>
         LET k == Cardinality(SameIdentity(emoji_payload, rem[h].payload[1]))
         IN k >= 1 =>
              Cardinality(SameIdentity(emoji_payload', rem[h].payload[1])) = k - 1
    ]_vars

\* The time that passed between the add notification and the remove
\* notification handler h matched with it.
Dwell(h) == rem[h].payload[1].timestamp - addedAt[rem[h].result[1].id]

\* C3: a matched remove appends exactly one Abuse Event, of its Reaction
\* Identity and occurring at the remove (to the store's second), when the
\* dwell is at most the reacted-time window, and none when it is longer; the
\* matched Pending Reaction is gone either way.
C3_ClassifiedByDwell ==
  [][\A h \in Removers :
       (rem[h].pc = "classify" /\ rem'[h].pc = "idle") =>
         LET p == rem[h].payload[1] IN
         /\ rem[h].result[1] \notin emoji_payload'
         /\ IF Dwell(h) <= ReactedTimeWindow
              THEN \E r \in emoji_abuser' \ emoji_abuser :
                     /\ emoji_abuser' = emoji_abuser \cup {r}
                     /\ Key(r) = Key(p)
                     /\ r.timestamp = ToSeconds(p.timestamp)
              ELSE emoji_abuser' = emoji_abuser
    ]_vars

\* C4: a remove is matched against the most recently added Pending Reaction
\* of its Reaction Identity, and the dwell it is classified by is the remove
\* instant minus the largest added_at stored among them.
C4_MatchesMostRecent ==
  [][\A h \in Removers :
       /\ (rem[h].pc = "idle" /\ rem'[h].pc = "delete") =>
            LET p == rem'[h].payload[1]
                r == rem'[h].result[1]
            IN /\ r \in SameIdentity(emoji_payload, p)
               /\ p.timestamp = now
               /\ \A q \in SameIdentity(emoji_payload, p) :
                    /\ q.timestamp <= r.timestamp
                    /\ addedAt[q.id] <= addedAt[r.id]
                    /\ q.id <= r.id
       /\ (rem[h].pc = "classify" /\ rem'[h].pc = "idle") =>
            ((emoji_abuser' # emoji_abuser) <=>
               (rem[h].payload[1].timestamp
                  - FromSeconds(rem[h].result[1].timestamp) <= ReactedTimeWindow))
    ]_vars

\* A remove is being matched against the later of two Pending Reactions of
\* its Reaction Identity that were added in different seconds.
C4_Witness ==
  \E h \in Removers :
    /\ rem[h].pc = "delete"
    /\ \E q \in SameIdentity(emoji_payload, rem[h].payload[1]) :
         q.timestamp < rem[h].result[1].timestamp

\* C5: a remove whose Reaction Identity has no Pending Reaction is a no-op:
\* a remove gets past its lookup only when a Pending Reaction of its identity
\* is stored, the unmatched remove leaves both stores and every handler as
\* they are, and an Abuse Event is only ever appended by a handler that holds
\* a match of its own identity.
C5_UnmatchedRemoveIsNoOp ==
  [][/\ \A h \in Removers :
          (rem[h].pc = "idle" /\ rem'[h].pc = "delete") =>
            SameIdentity(emoji_payload, rem'[h].payload[1]) # {}
     /\ (log' = "No matching reaction add payload found" /\ log' # log) =>
          /\ emoji_payload' = emoji_payload
          /\ emoji_abuser' = emoji_abuser
          /\ rem' = rem
     /\ (emoji_abuser' \ emoji_abuser # {}) =>
          \E h \in Removers :
            /\ rem[h].pc = "classify"
            /\ Key(rem[h].result[1]) = Key(rem[h].payload[1])
            /\ \A r \in emoji_abuser' \ emoji_abuser : Key(r) = Key(rem[h].payload[1])
    ]_vars

\* An unmatched remove was just processed while a Pending Reaction of another
\* Reaction Identity is stored, and no Abuse Event exists.
C5_Witness ==
  /\ log = "No matching reaction add payload found"
  /\ emoji_payload # {}
  /\ emoji_abuser = {}
  /\ \A h \in Removers : rem[h].pc = "idle"

\* ------------------------------------------------------------ claims: Window Aggregator
\* The Abuse Events of user u that occurred at second cutoff_ts or later.
EventsSince(rows, u, cutoff_ts) ==
  {r \in rows : r.user_id = u /\ r.timestamp >= cutoff_ts}

\* The users with more than the tolerated number of events since cutoff_ts.
OverLimit(rows, cutoff_ts) ==
  {u \in UserIds :
     Cardinality(EventsSince(rows, u, cutoff_ts)) > WarningMaxAllowedRemoval}

\* The elements of a sequence.
Range(s) == {s[i] : i \in DOMAIN s}

\* The users of the alerts a after the first base ones, in order.
AlertedSince(a, base) ==
  [i \in 1..(Len(a) - base) |-> a[base + i].user_id]

\* C6: a run flags a user if and only if the user has strictly more than
\* warning_max_allowed_removal Abuse Events at or after the cutoff: the first
\* query's offenders, and the users the run goes on to alert, are exactly
\* those; a run that finds nobody to flag leaves nobody over the limit; every
\* alert reports a count over the limit.
C6_FlaggedIffOverLimit ==
  [][/\ (agg.pc = "idle" /\ agg'.pc = "query2") =>
          /\ agg'.cutoff = ToSeconds(now - WarningWindow)
          /\ agg'.offenders = OverLimit(emoji_abuser, agg'.cutoff)
     /\ (agg.pc = "idle" /\ agg'.pc = "idle" /\ now' = now
           /\ log' = "No reaction abusers detected" /\ log' # log) =>
          OverLimit(emoji_abuser, ToSeconds(now - WarningWindow)) = {}
     /\ (agg.pc = "query2" /\ agg'.pc = "send") =>
          /\ Range(agg'.todo) = agg.offenders
          /\ agg.offenders \subseteq OverLimit(emoji_abuser, agg.cutoff)
     /\ (agg.pc = "send" /\ Len(alerts') = Len(alerts) + 1) =>
          /\ alerts'[Len(alerts')].count > WarningMaxAllowedRemoval
          /\ alerts'[Len(alerts')].count =
               Cardinality(alerts'[Len(alerts')].ids)
    ]_vars

\* One user was alerted with one event more than the limit while another
\* user, with exactly the limit inside the window, was not.
C6_Witness ==
  /\ agg.pc = "idle"
  /\ \E i \in DOMAIN alerts :
       /\ alerts[i].count = WarningMaxAllowedRemoval + 1
       /\ \E u \in UserIds \ {alerts[j].user_id : j \in DOMAIN alerts} :
            Cardinality(EventsSince(emoji_abuser, u,
                                    ToSeconds(now - WarningWindow)))
              = WarningMaxAllowedRemoval

\* C7: in a run, every flagged user gets exactly one alert (the alerts of
\* the run so far and the users still to alert are the flagged users, each
\* once), and the step that delivers a user's alert leaves no Abuse Event of
\* that user in the store, whatever its age or key, and every other user's
\* events as they were.
C7_OneAlertThenFullPurge ==
  [][/\ (agg'.pc = "send") =>
          /\ AlertedSince(alerts', agg'.base) \o agg'.todo
               = AbuseWarns(agg'.abusers)
          /\ \A i, j \in DOMAIN agg'.todo :
               agg'.todo[i] = agg'.todo[j] => i = j
     /\ (agg.pc = "send" /\ Len(alerts') = Len(alerts) + 1) =>
          LET u == Head(agg.todo) IN
          /\ alerts'[Len(alerts')].user_id = u
          /\ {r \in emoji_abuser' : r.user_id = u} = {}
          /\ {r \in emoji_abuser' : r.user_id # u}
               = {r \in emoji_abuser : r.user_id # u}
          /\ (agg'.pc = "idle") =>
               AlertedSince(alerts', agg.base) = AbuseWarns(agg.abusers)
    ]_vars

\* A run alerted two users and left the store empty; each alert counted more
\* events than its evidence holds, and before any sweep could delete a row an
\* event that no alert counted (one older than the window) is gone as well.
C7_Witness ==
  /\ Len(alerts) = 2
  /\ alerts[1].user_id # alerts[2].user_id
  /\ agg.pc = "idle"
  /\ \A i \in DOMAIN alerts :
       /\ Len(alerts[i].evidence) < alerts[i].count
       /\ alerts[i].count = WarningMaxAllowedRemoval + 1
  /\ emoji_abuser = {}
  /\ now < StartTime + WarningWindow
  /\ \E id \in 1..(abuserNextId - 1) :
       /\ \A i \in DOMAIN alerts : id \notin alerts[i].ids
       /\ occurredAt[id] < StartTime - WarningWindow

\* C8: no repeat alerts: no Abuse Event is counted by two alerts, no event
\* an alert counted is still stored, and whatever is stored for an alerted
\* user was recorded after the events of that alert.
C8_NoRepeatAlerts ==
  /\ \A i, j \in DOMAIN alerts :
       i # j => alerts[i].ids \cap alerts[j].ids = {}
  /\ \A i \in DOMAIN alerts :
       \A r \in emoji_abuser :
         r.user_id = alerts[i].user_id =>
           \A id \in alerts[i].ids : r.id > id

\* After a user's alert the aggregator ran again and found nobody to flag.
C8_Witness ==
  /\ alerts # <<>>
  /\ agg.pc = "idle"
  /\ log = "No reaction abusers detected"
  /\ \A r \in emoji_abuser : r.user_id # alerts[1].user_id

OccurredSince(rows, u, t) ==
  {r \in rows : r.user_id = u /\ occurredAt[r.id] >= t}

\* C10: the window is inclusive at its lower edge and excludes everything
\* older: a run counts an Abuse Event exactly when it occurred at
\* now - warning_time_window_seconds or later, so the users the first query
\* returns are those with more than the limit of such events, and a run that
\* returns nobody leaves no user with more.
C10_LowerEdgeInclusive ==
  [][/\ (agg.pc = "idle" /\ agg'.pc = "query2") =>
          \A u \in UserIds :
            u \in agg'.offenders <=>
              Cardinality(OccurredSince(emoji_abuser, u, now - WarningWindow))
                > WarningMaxAllowedRemoval
     /\ (agg.pc = "idle" /\ agg'.pc = "idle" /\ now' = now
           /\ log' = "No reaction abusers detected" /\ log' # log) =>
          \A u \in UserIds :
            Cardinality(OccurredSince(emoji_abuser, u, now - WarningWindow))
              <= WarningMaxAllowedRemoval
    ]_vars
\* The records of user u among the records a run selected.
SelectedOf(abusers, u) ==
  {abusers[i] : i \in {j \in DOMAIN abusers : abusers[j].user_id = u}}

\* C11: an alert's count is the number of the user's Abuse Events in the
\* window, before deduplication (the run selects exactly those events and
\* the count is their number), its evidence holds one entry per distinct
\* Reaction Identity among them, the user gets one alert in the run, and
\* none of the user's Abuse Events is stored after the alert's delivery.
C11_CountBeforeDedup ==
  [][/\ (agg.pc = "query2" /\ agg'.pc = "send") =>
          \A u \in Range(agg'.todo) :
            SelectedOf(agg'.abusers, u) = EventsSince(emoji_abuser, u, agg.cutoff)
     /\ (agg.pc = "send" /\ Len(alerts') = Len(alerts) + 1) =>
          LET a == alerts'[Len(alerts')]
              selected == SelectedOf(agg.abusers, a.user_id)
          IN /\ a.count = Cardinality(selected)
             /\ Len(a.evidence) = Cardinality({Key(r) : r \in selected})
             /\ \A i, j \in DOMAIN a.evidence :
                  Key(a.evidence[i]) = Key(a.evidence[j]) => i = j
             /\ \A r \in emoji_abuser' : r.user_id # a.user_id
             /\ \A i \in DOMAIN alerts :
                  i > agg.base => alerts[i].user_id # a.user_id
    ]_vars

\* A user whose fourth fast add/remove cycle on one message was ingested
\* after the start has been alerted once, with count 4 and one evidence
\* entry, and has no Abuse Event left.
C11_Witness ==
  /\ agg.pc = "idle"
  /\ \E i \in DOMAIN alerts :
       /\ alerts[i].count = 4
       /\ Len(alerts[i].evidence) = 1
       /\ \E id \in alerts[i].ids : occurredAt[id] >= StartTime /\ id = abuserNextId - 1
       /\ \A j \in DOMAIN alerts :
            alerts[j].user_id = alerts[i].user_id => j = i
       /\ \A r \in emoji_abuser : r.user_id # alerts[i].user_id

\* C12: the records a run selects come ordered by user_id ascending then
\* occurred_at descending, and an alert's evidence holds exactly one of the
\* user's selected records per distinct key: the most recent of that key
\* (the first met in that order), the entries in that order.
C12_EvidenceMostRecentPerKey ==
  [][/\ (agg.pc = "query2" /\ agg'.pc = "send") =>
          \A i, j \in DOMAIN agg'.abusers :
            i < j =>
              \/ agg'.abusers[i].user_id < agg'.abusers[j].user_id
              \/ /\ agg'.abusers[i].user_id = agg'.abusers[j].user_id
                 /\ agg'.abusers[i].timestamp >= agg'.abusers[j].timestamp
     /\ (agg.pc = "send" /\ Len(alerts') = Len(alerts) + 1) =>
          LET a == alerts'[Len(alerts')]
              e == a.evidence
              selected == SelectedOf(agg.abusers, a.user_id)
          IN /\ \A i \in DOMAIN e : e[i] \in selected
             /\ {Key(e[i]) : i \in DOMAIN e} = {Key(r) : r \in selected}
             /\ \A i, j \in DOMAIN e : Key(e[i]) = Key(e[j]) => i = j
             /\ \A i \in DOMAIN e :
                  \A r \in selected :
                    Key(r) = Key(e[i]) =>
                      \/ r.timestamp < e[i].timestamp
                      \/ r.timestamp = e[i].timestamp /\ r.id <= e[i].id
             /\ \A i, j \in DOMAIN e :
                  i < j => e[i].timestamp >= e[j].timestamp
    ]_vars

\* An alert whose evidence has two entries, the first more recent than the
\* second, out of more selected records than that.
C12_Witness ==
  \E i \in DOMAIN alerts :
    /\ Len(alerts[i].evidence) = 2
    /\ alerts[i].evidence[1].timestamp > alerts[i].evidence[2].timestamp
    /\ alerts[i].count > 2

\* C13: an aggregator run in which no user is flagged writes nothing: with
\* no user over the limit in the window the task returns from its first
\* query, and every step of a run other than an alert's delivery leaves both
\* stores and the alerts as they are.
C13_NoFlagNoWrites ==
  [][/\ (agg.pc = "idle"
           /\ OverLimit(emoji_abuser, ToSeconds(now - WarningWindow)) = {}) =>
          agg'.pc = "idle"
     /\ ((agg' # agg \/ (log' = "No reaction abusers detected" /\ log' # log))
           /\ Len(alerts') = Len(alerts)) =>
          /\ emoji_abuser' = emoji_abuser
          /\ emoji_payload' = emoji_payload
          /\ alerts' = alerts
    ]_vars

\* A run just found nobody to flag while both stores hold rows; no alert was
\* ever sent.
C13_Witness ==
  /\ log = "No reaction abusers detected"
  /\ agg.pc = "idle"
  /\ alerts = <<>>
  /\ emoji_abuser # {}
  /\ emoji_payload # {}

\* The step in which a Retention Sweeper run issues its DELETE.
SweepStep == sweep.pc = "idle" /\ sweep'.pc = "report"

\* C14: a Retention Sweeper run deletes exactly the Abuse Events that
\* occurred strictly before now - 2 * warning_time_window_seconds: an event
\* exactly at the horizon and every younger one stay, and the run reports
\* the number of events it deleted.
C14_SweepDeletesExactlyOlder ==
  [][SweepStep =>
       /\ emoji_abuser \ emoji_abuser' =
            {r \in emoji_abuser : occurredAt[r.id] < now - 2 * WarningWindow}
       /\ emoji_abuser' \subseteq emoji_abuser
       /\ sweep'.pruned_count = Cardinality(emoji_abuser \ emoji_abuser')
    ]_vars

\* C15: the Retention Sweeper does not interfere with alerting: whatever
\* an aggregator run or a remove handler is in the middle of, a sweep
\* deletes only Abuse Events that lie outside the current warning window,
\* both by their stored second and by the instant they occurred at, so every
\* user's events in the window, hence the users over the limit and their
\* counts, are the same after the sweep as before it, and the sweep touches
\* neither the aggregator's run nor the alerts.
C15_SweepOutsideWindow ==
  [][SweepStep =>
       LET cutoff_ts == CutoffTs(now, WarningTimeWindowSeconds)
       IN /\ \A r \in emoji_abuser \ emoji_abuser' :
               /\ r.timestamp < cutoff_ts
               /\ occurredAt[r.id] < now - WarningWindow
          /\ \A u \in UserIds :
               EventsSince(emoji_abuser', u, cutoff_ts)
                 = EventsSince(emoji_abuser, u, cutoff_ts)
          /\ OverLimit(emoji_abuser', cutoff_ts) = OverLimit(emoji_abuser, cutoff_ts)
          /\ agg.pc # "idle" =>
               \A r \in emoji_abuser \ emoji_abuser' : r.timestamp < agg.cutoff
          /\ agg' = agg
          /\ alerts' = alerts
    ]_vars

\* A sweep has just deleted rows in the middle of an aggregator run that is
\* about to alert a user, who is still over the limit.
C15_Witness ==
  /\ sweep.pc = "report"
  /\ sweep.pruned_count > 0
  /\ agg.pc = "send"
  /\ agg.todo # <<>>
  /\ OverLimit(emoji_abuser, agg.cutoff) # {}

\* ------------------------------------------------------------ claims: life cycle
\* The lines only a tick of a scheduled task logs.
TickLogs ==
  {"No reaction abusers detected",
   "Unable to resolve reaction abuser log channel",
   "Deleted reaction abuser records",
   "Unhandled exception in log_channel.send",
   "Unhandled exception in internal background task",
   "Pruned old reaction abuser records"}

\* C16: neither task executes a tick before the ready event: as long as the
\* event has not fired both loops are parked (or were cancelled while
\* parked), no tick of either is in progress and none has left a trace: no
\* alert, no line a tick logs, no row purged or pruned.
C16_NoTickBeforeReady ==
  ~ready =>
    /\ \A t \in Tasks : loops[t] \in {"parked", "stopped"} /\ inflight[t] = 0
    /\ agg = IdleAgg
    /\ sweep = IdleSweep
    /\ alerts = <<>>
    /\ log \notin TickLogs
    /\ \A i \in 1..(2 * PersistedCount("over+old")) :
         \E r \in emoji_abuser : r.id = i

\* After the ready event both loops run: an alert went out and a sweep is
\* in progress.
C16_Witness ==
  /\ ready
  /\ \A t \in Tasks : loops[t] = "looping"
  /\ alerts # <<>>
  /\ sweep.pc = "report"

\* C17: each task is single-flight: never more than one tick of the
\* Window Aggregator in progress, nor more than one of the Retention Sweeper,
\* however long a tick stays suspended; the tick in progress is the one the
\* task's coroutine state belongs to.
C17_SingleFlight ==
  /\ \A t \in Tasks : inflight[t] <= 1
  /\ inflight["minute"] = 1 <=> agg.pc # "idle"
  /\ inflight["hour"] = 1 <=> sweep.pc # "idle"

\* An aggregator tick still suspended at its send a period or more after it
\* began, while a sweeper tick is in progress too.
C17_Witness ==
  /\ agg.pc = "send"
  /\ ToSeconds(now) >= agg.cutoff + WarningTimeWindowSeconds + 60
  /\ inflight["minute"] = 1
  /\ inflight["hour"] = 1

\* C18: cancellation on unload is cooperative: a task stops only when no
\* tick of it is in progress, the step that stops the aggregator leaves no
\* user alerted in it with records in the store, and a stopped task begins
\* no tick.
C18_CancelWaitsForTick ==
  [][/\ \A t \in Tasks :
          (loops[t] # "stopped" /\ loops'[t] = "stopped") => inflight[t] = 0
     /\ (loops["minute"] # "stopped" /\ loops'["minute"] = "stopped"
           /\ Len(alerts') > Len(alerts)) =>
          \A r \in emoji_abuser' : r.user_id # alerts'[Len(alerts')].user_id
     /\ \A t \in Tasks :
          loops[t] = "stopped" => loops'[t] = "stopped" /\ inflight'[t] = 0
    ]_vars

\* C19: an exception raised inside a tick aborts that tick only: the step in
\* which a tick fails leaves both tasks scheduled as they were, so no task
\* is ever ended by a failure.
C19_TickFailureKeepsLoop ==
  [][(log' \in {"Unhandled exception in internal background task",
                "Unhandled exception in log_channel.send"}
        /\ (faults' > faults \/ agg' # agg)) =>
       /\ loops' = loops
       /\ \A t \in Tasks : loops'[t] # "failed"
    ]_vars

\* The lines the client logs for an exception out of a notification handler.
HandlerFaultLogs ==
  {"Ignoring exception in on_raw_reaction_add",
   "Ignoring exception in on_raw_reaction_remove"}

\* C20: a store failure while ingesting a notification is isolated to it:
\* the failing step writes to neither store, leaves the scheduled tasks,
\* their ticks and the alerts as they are, and leaves every remove slot
\* either untouched or free for the next notification; no slot is ever
\* left unable to take one.
C20_IngestionFailureIsolated ==
  [][/\ (faults' > faults /\ log' \in HandlerFaultLogs) =>
          /\ emoji_payload' = emoji_payload
          /\ emoji_abuser' = emoji_abuser
          /\ loops' = loops
          /\ inflight' = inflight
          /\ agg' = agg
          /\ sweep' = sweep
          /\ alerts' = alerts
          /\ \A h \in Removers : rem'[h] = rem[h] \/ rem'[h] = IdleRemove
     /\ \A h \in Removers : rem'[h].pc \in {"idle", "delete", "classify"}
    ]_vars

\* After the last exception, which came out of a handler, a remove was
\* ingested as an Abuse Event, and the aggregator is in the middle of a
\* tick with both tasks running.
C20_Witness ==
  /\ faults > 0
  /\ \A t \in Tasks : loops[t] = "looping"
  /\ log = "Detected reaction abuser"
  /\ abuserNextId > 2 * PersistedCount("over+old") + 1
  /\ agg.pc # "idle"

\* ------------------------------------------------------------ claims: ingestion
\* C21: notifications whose actor is the bot's own account are ignored: no
\* Pending Reaction and no Abuse Event carries the bot's user_id, and no
\* remove handler is ever at work on a payload of the bot.
C21_OwnReactionsIgnored ==
  /\ \A r \in emoji_payload \cup emoji_abuser : r.user_id # BotUserId
  /\ \A h \in Removers :
       rem[h].pc # "idle" => rem[h].payload[1].user_id # BotUserId

\* An add and a remove of the bot's own account were met while members'
\* reactions are pending and on record.
C21_Witness ==
  /\ ignored = {"add", "remove"}
  /\ emoji_payload # {}
  /\ emoji_abuser # {}

\* C22: an add whose emoji has neither a name nor an id is dropped before
\* it enters the Pending Reaction Store: no Pending Reaction is stored with
\* an empty emoji key.
C22_NoEmptyEmojiKey == \A r \in emoji_payload : r.emoji # ""

\* The Pending Reaction a remove of notification k would be matched with.
MatchOf(k) == Get(emoji_payload, ExtractPayloadInfo(k, now))

\* C23: Pending Reactions survive a restart and remain matchable: a restart
\* leaves the Pending Reaction Store as it was; every Pending Reaction,
\* whichever run of the process stored it, is matched by a remove whose
\* emoji yields its key; the remove then consumes what it matched and is
\* classified by the dwell against the stored added_at as any other: an
\* Abuse Event of its identity when the dwell is within the reacted-time
\* window, none otherwise.
C23_SurvivesRestart ==
  [][/\ boots' # boots => emoji_payload' = emoji_payload
     /\ \A r \in emoji_payload : \A k \in RestartIdentities :
          r.emoji = EmojiKey(k.emoji) /\ r.user_id = k.user_id
            /\ r.message_id = k.message_id /\ r.guild_id = k.guild_id
            /\ r.channel_id = k.channel_id
          => MatchOf(k) # <<>> /\ Key(MatchOf(k)[1]) = Key(r)
     /\ \A h \in Removers :
          /\ (rem[h].pc = "delete" /\ rem'[h].pc = "classify") =>
               rem[h].result[1] \notin emoji_payload'
          /\ (rem[h].pc = "classify" /\ rem'[h].pc = "idle" /\ boots' = boots) =>
               IF TimeDiff(rem[h].payload[1], rem[h].result[1]) <= ReactedTimeWindow
                 THEN \E r \in emoji_abuser' \ emoji_abuser :
                        /\ emoji_abuser' = emoji_abuser \cup {r}
                        /\ Key(r) = Key(rem[h].payload[1])
                 ELSE emoji_abuser' = emoji_abuser
    ]_vars

\* A remove of a custom emoji handled after a restart has matched and
\* consumed the Pending Reaction stored before the restart, half a second
\* earlier, and is about to classify the pair as abuse.
C23_Witness ==
  /\ Len(boots) > 1
  /\ rem[1].pc = "classify"
  /\ addedAt[rem[1].result[1].id] < boots[Len(boots)]
  /\ rem[1].payload[1].timestamp >= boots[Len(boots)]
  /\ rem[1].result[1].emoji = "e-7"
  /\ rem[1].result[1] \notin emoji_payload
  /\ IsAbuse(TimeDiff(rem[1].payload[1], rem[1].result[1]))

\* C24: neither scheduled task deletes or changes a Pending Reaction: a
\* step of the aggregator or of the sweeper, and any step that takes Abuse
\* Events away, leaves the Pending Reaction Store as it is; a Pending
\* Reaction leaves the store only in the DELETE of a remove handler of its
\* Reaction Identity, and while it is there its row is the one inserted.
C24_TasksLeavePending ==
  [][/\ (agg' # agg \/ sweep' # sweep \/ alerts' # alerts
           \/ emoji_abuser \ emoji_abuser' # {}) =>
          emoji_payload' = emoji_payload
     /\ \A r \in emoji_payload \ emoji_payload' :
          \E h \in Removers :
            /\ rem[h].pc = "delete"
            /\ rem'[h].pc = "classify"
            /\ Key(r) = Key(rem[h].payload[1])
     /\ \A r \in emoji_payload' :
          (\E q \in emoji_payload : q.id = r.id) => r \in emoji_payload
    ]_vars

\* After an alert and a sweep that pruned Abuse Events, a Pending Reaction
\* older than the sweep's horizon is still in the store.
C24_Witness ==
  /\ sweep.pc = "report"
  /\ sweep.pruned_count > 0
  /\ alerts # <<>>
  /\ \E r \in emoji_payload :
       r.timestamp < CutoffTs(now, OlderThanSeconds(WarningTimeWindowSeconds))

\* C25: the dwell a matched remove is classified by is the time that passed
\* between the add notification and the remove notification, nothing lost in
\* storing added_at: a pair whose dwell is within the reacted-time window is
\* classified as abuse whatever the sub-second part of the add instant.
C25_DwellIsExact ==
  [][\A h \in Removers :
       (rem[h].pc = "classify" /\ rem'[h].pc = "idle") =>
         /\ Dwell(h) <= ReactedTimeWindow =>
              IsAbuse(TimeDiff(rem[h].payload[1], rem[h].result[1]))
         /\ TimeDiff(rem[h].payload[1], rem[h].result[1]) = Dwell(h)
    ]_vars

\* C26: no Abuse Event inside the window is lost uncounted when ingestion
\* interleaves with an aggregator run: every event of the alerted user that
\* the purge after the alert deletes, and that lies inside the run's window,
\* is one of the events the alert counted.
C26_NoUncountedEventPurged ==
  [][(agg.pc = "send" /\ Len(alerts') = Len(alerts) + 1) =>
       \A r \in emoji_abuser \ emoji_abuser' :
         r.timestamp >= agg.cutoff => r.id \in alerts'[Len(alerts')].ids
    ]_vars

\* A run ends at the check of the log channel.
NoChannelStep ==
  /\ agg.pc = "query2"
  /\ agg'.pc = "idle"
  /\ log' = "Unable to resolve reaction abuser log channel"

\* A run that ended at the check of the log channel emitted no alert and
\* deleted nothing, and had users to flag.
NoChannelNoWrites ==
  /\ (agg'.pc = "send") => agg'.log_channel
  /\ (Len(alerts') > Len(alerts)) => agg.log_channel
  /\ NoChannelStep =>
       /\ emoji_abuser' = emoji_abuser
       /\ alerts' = alerts
       /\ agg.offenders # {}

\* C28 as stated: when the alert channel is not configured or cannot be
\* resolved, a run with flagged users emits no alert and deletes nothing, and
\* the same users are flagged again by the next run: a run that starts when
\* this one ends flags every user this one flagged.
C28_SameUsersFlaggedNextRun ==
  [][/\ NoChannelNoWrites
     /\ NoChannelStep =>
          agg.offenders \subseteq
            Offenders(emoji_abuser', CutoffTs(now', WarningTimeWindowSeconds),
                      WarningMaxAllowedRemoval)
    ]_vars

\* C28, corrected: when the alert channel is not configured or cannot be
\* resolved, a run with flagged users emits no alert and deletes nothing: a
\* run reaches its sends, and an alert is emitted, only with a resolved
\* channel; the run that finds no channel leaves the Abuse Event Store and
\* the alerts as they were, so the users it flagged are still over the limit
\* in its window, and a later run flags those of them whose events are still
\* inside that run's window.
C28_NoChannelNoAlertNoPurge ==
  [][/\ NoChannelNoWrites
     /\ NoChannelStep =>
          /\ agg.offenders \subseteq
               Offenders(emoji_abuser', agg.cutoff, WarningMaxAllowedRemoval)
          /\ \A u \in agg.offenders :
               \/ u \in Offenders(emoji_abuser',
                                  CutoffTs(now', WarningTimeWindowSeconds),
                                  WarningMaxAllowedRemoval)
               \/ \E r \in emoji_abuser' :
                    /\ r.user_id = u
                    /\ InWindow(r, agg.cutoff)
                    /\ ~InWindow(r, CutoffTs(now', WarningTimeWindowSeconds))
    ]_vars

\* A run with a flagged user found no channel: no alert was emitted and
\* every event ever recorded is still stored; one user is still over the
\* limit, and the clock has gone on since the process started.
C28_Witness ==
  /\ log = "Unable to resolve reaction abuser log channel"
  /\ agg.pc = "idle"
  /\ alerts = <<>>
  /\ now > StartTime
  /\ \A id \in 1..(abuserNextId - 1) : \E r \in emoji_abuser : r.id = id
  /\ Offenders(emoji_abuser, CutoffTs(now, WarningTimeWindowSeconds),
               WarningMaxAllowedRemoval) # {}

\* C29: processing a matched remove is all-or-nothing over the two stores:
\* when the handler of a remove whose dwell is within the reacted-time
\* window ends without having appended the Abuse Event, the matched Pending
\* Reaction is still in the Pending Reaction Store.
C29_MatchedRemoveAllOrNothing ==
  [][\A h \in Removers :
       (/\ rem[h].pc = "classify"
        /\ rem'[h].pc = "idle"
        /\ IsAbuse(TimeDiff(rem[h].payload[1], rem[h].result[1]))
        /\ emoji_abuser' = emoji_abuser) =>
         rem[h].result[1] \in emoji_payload'
    ]_vars

\* C30: operations touch only their own key: a Pending Reaction is deleted
\* only by the remove handler's delete and only if it has the Reaction
\* Identity of that handler's payload; an Abuse Event is deleted only by the
\* purge after an alert and only if it is an event of the alerted user; no
\* stored row is ever changed; and over an alert every other user's events
\* and count inside the run's window are what they were.
C30_OnlyOwnKey ==
  [][/\ \A r \in emoji_payload \ emoji_payload' :
          \E h \in Removers :
            /\ rem[h].pc = "delete"
            /\ rem'[h].pc = "classify"
            /\ Key(r) = Key(rem[h].payload[1])
     /\ \A r \in emoji_abuser \ emoji_abuser' :
          /\ agg.pc = "send"
          /\ Len(alerts') = Len(alerts) + 1
          /\ r.user_id = alerts'[Len(alerts')].user_id
     /\ \A r \in emoji_payload' \ emoji_payload : r.id = payloadNextId
     /\ \A r \in emoji_abuser' \ emoji_abuser : r.id = abuserNextId
     /\ (agg.pc = "send" /\ Len(alerts') = Len(alerts) + 1) =>
          \A u \in UserIds \ {alerts'[Len(alerts')].user_id} :
            /\ {r \in emoji_abuser' : r.user_id = u}
                 = {r \in emoji_abuser : r.user_id = u}
            /\ CountWithin(emoji_abuser', u, agg.cutoff)
                 = CountWithin(emoji_abuser, u, agg.cutoff)
    ]_vars

\* A remove was processed while a Pending Reaction of another Reaction
\* Identity was stored, and that one is still stored; a user was alerted and
\* purged while another user's events, as many as the limit tolerates, are
\* all still stored.
C30_Witness ==
  /\ rem[1].pc = "classify"
  /\ \E r \in emoji_payload :
       /\ Key(r) # Key(rem[1].payload[1])
       /\ r.id < rem[1].result[1].id
  /\ agg.pc = "idle"
  /\ \E i \in DOMAIN alerts :
       /\ \A r \in emoji_abuser : r.user_id # alerts[i].user_id
       /\ \E u \in UserIds \ {alerts[i].user_id} :
            Cardinality({r \in emoji_abuser : r.user_id = u})
              = WarningMaxAllowedRemoval

\* The number of alerts emitted for user u.
NumAlerts(u) == Cardinality({i \in DOMAIN alerts : alerts[i].user_id = u})

\* C27: under fairness of the aggregator task, with the channel resolved and
\* no failure, every user with more than warning_max_allowed_removal Abuse
\* Events inside the warning window is eventually alerted, and by the first
\* tick that starts after the threshold was crossed: a tick that starts
\* flags exactly the users over the limit then, goes on to its sends for all
\* of them, and has alerted each of them when it ends.
C27_OverLimitEventuallyAlerted ==
  /\ [][/\ (agg.pc = "idle" /\ agg'.pc = "query2") =>
             agg'.offenders
               = OverLimit(emoji_abuser, ToSeconds(now - WarningWindow))
        /\ (agg.pc = "idle" /\ agg'.pc = "idle" /\ now' = now
              /\ log' = "No reaction abusers detected" /\ log' # log) =>
             OverLimit(emoji_abuser, ToSeconds(now - WarningWindow)) = {}
        /\ (agg.pc = "query2" /\ agg' # agg) =>
             /\ agg'.pc = "send"
             /\ Range(agg'.todo) = agg.offenders
        /\ (agg.pc = "send" /\ agg'.pc = "idle") =>
             agg.offenders \subseteq Range(AlertedSince(alerts', agg.base))
       ]_vars
  /\ \A u \in UserIds : \A n \in 0..MaxAlerts :
       (/\ u \in OverLimit(emoji_abuser, ToSeconds(now - WarningWindow))
        /\ NumAlerts(u) = n)
         ~> (NumAlerts(u) > n)

\* A user who had exactly the tolerated number of events crossed the
\* threshold with an event ingested in this run of the process, and the
\* alert that followed counted it.
C27_Witness ==
  /\ addedAt # <<>>
  /\ emoji_payload = {}
  /\ rem[1].pc = "idle"
  /\ agg.pc = "idle"
  /\ \E i \in DOMAIN alerts :
       /\ (abuserNextId - 1) \in alerts[i].ids
       /\ alerts[i].count = WarningMaxAllowedRemoval + 1
====
